---- MODULE Spec2Model ----
(***************************************************************************)
(* Meeting artefact lifecycle of the MIWA backend: the DynamoDB           *)
(* repository, the pipeline stage handlers and the meetings REST          *)
(* endpoints of backend/services/meetings_service.                        *)
(*                                                                         *)
(* Text is modelled as a sequence of tokens.  A token is either one of    *)
(* the characters the code inspects ("/", "\\", "_", ".", "#", "+", " ")  *)
(* or a run of characters none of which is one of those.                  *)
(***************************************************************************)
EXTENDS Integers, Sequences, FiniteSets, TLC

VARIABLES table, objects, now, inv, last

vars == <<table, objects, now, inv, last>>

(***************************************************************************)
(* Bounds of the model.                                                    *)
(***************************************************************************)
MaxRecords == 2
MaxClock == 4
MaxWrites == 3
MaxNameLen == 3
MaxPage == 2
MaxPageSize == 2

\* deliveries of one upload notification
MaxDeliveries == 2

(***************************************************************************)
(* Text helpers.                                                           *)
(***************************************************************************)
Str(tok) == <<tok>>

None == <<"<none>">>

RECURSIVE IndexFrom(_, _, _)
IndexFrom(s, i, chars) ==
    IF i > Len(s) THEN Len(s) + 1
    ELSE IF s[i] \in chars THEN i
    ELSE IndexFrom(s, i + 1, chars)

Contains(s, chars) == IndexFrom(s, 1, chars) <= Len(s)

Slice(s, a, b) == IF a > b THEN <<>> ELSE SubSeq(s, a, b)

RECURSIVE LastIndex(_, _, _)
LastIndex(s, i, chars) ==
    IF i < 1 THEN 0
    ELSE IF s[i] \in chars THEN i
    ELSE LastIndex(s, i - 1, chars)

\* str.lower() on a token
LowerTok(tok) ==
    CASE tok = "MP4" -> "mp4"
      [] tok = "TXT" -> "txt"
      [] OTHER -> tok

Lower(s) == [i \in 1..Len(s) |-> LowerTok(s[i])]

\* str.strip(): leading and trailing blanks removed
RECURSIVE Strip(_)
Strip(s) ==
    IF s = <<>> THEN s
    ELSE IF Head(s) = " " THEN Strip(Tail(s))
    ELSE IF s[Len(s)] = " " THEN Strip(SubSeq(s, 1, Len(s) - 1))
    ELSE s

\* urllib.parse.unquote_plus: "+" becomes a blank, a percent escape becomes the
\* character it encodes
UnquoteTok(tok) ==
    CASE tok = "+" -> " "
      [] tok = "%2B" -> "+"
      [] tok = "%2F" -> "/"
      [] tok = "%5F" -> "_"
      [] tok = "%23" -> "#"
      [] tok = "%25" -> "%"
      [] OTHER -> tok

unquote_plus(s) == [i \in 1..Len(s) |-> UnquoteTok(s[i])]

(***************************************************************************)
(* schemas.py: MeetingArtifactStatus, MeetingIdentifier                    *)
(***************************************************************************)
UPLOADED == "UPLOADED"
TRANSCRIBING == "TRANSCRIBING"
TRANSCRIBED == "TRANSCRIBED"
SUMMARIZING == "SUMMARIZING"
SUMMARIZED == "SUMMARIZED"
FAILED == "FAILED"

MeetingArtifactStatus ==
    {UPLOADED, TRANSCRIBING, TRANSCRIBED, SUMMARIZING, SUMMARIZED, FAILED}

\* an artefact that is uploaded but not yet picked up counts as not processing
is_processing_started(status) == status \in {TRANSCRIBING, SUMMARIZING}

is_processing(status) == status \in {UPLOADED, TRANSCRIBING, SUMMARIZING}

MeetingIdentifier(user_email, meeting_name, meeting_date, basename) ==
    [user_email |-> user_email, meeting_name |-> meeting_name,
     meeting_date |-> meeting_date, basename |-> basename]

compose_pk(identifier) ==
    identifier.user_email \o <<"#">> \o identifier.meeting_name \o <<"#">>
        \o identifier.meeting_date \o <<"#">> \o identifier.basename

(***************************************************************************)
(* paths.py: MeetingS3Paths, split_filename                                *)
(***************************************************************************)
MeetingS3Paths(identifier, ext) == [identifier |-> identifier, ext |-> ext]

folder(paths) ==
    paths.identifier.meeting_name \o <<"_">> \o paths.identifier.meeting_date

recording_key(paths) ==
    <<"grabaciones", "/">> \o paths.identifier.user_email \o <<"/">>
        \o folder(paths) \o <<"/">> \o paths.identifier.basename \o paths.ext

transcription_key(paths) ==
    <<"transcripciones", "/">> \o paths.identifier.user_email \o <<"/">>
        \o folder(paths) \o <<"/">> \o paths.identifier.basename \o <<".", "json">>

\* the summary stored under the prefix of another deployment
summary_key_other_prefix(paths) ==
    <<"summaries", "/">> \o paths.identifier.user_email \o <<"/">>
        \o folder(paths) \o <<"/">> \o paths.identifier.basename \o <<".", "json">>

summary_key(paths) ==
    <<"resumenes", "/">> \o paths.identifier.user_email \o <<"/">>
        \o folder(paths) \o <<"/">> \o paths.identifier.basename \o <<".", "json">>

InvalidKey == [invalid |-> TRUE]

\* _KEY_PATTERN:
\*   ^grabaciones/(user_email: [^/]+)/(folder: [^/]+)/(basename: [^/.]+)(ext: \.[^.]+)$
\* The result carries the four groups, or InvalidKey when the key does not match.
KeyPatternMatch(d) ==
    LET p1 == IndexFrom(d, 3, {"/"})
        p2 == IndexFrom(d, p1 + 1, {"/"})
        p3 == IndexFrom(d, p2 + 1, {"/", "."})
        n == Len(d)
    IN  IF /\ n >= 2
           /\ d[1] = "grabaciones"
           /\ d[2] = "/"
           /\ p1 > 3 /\ p1 <= n
           /\ p2 > p1 + 1 /\ p2 <= n
           /\ p3 > p2 + 1 /\ p3 <= n
           /\ d[p3] = "."
           /\ p3 < n
           /\ ~Contains(Slice(d, p3 + 1, n), {"."})
        THEN [invalid |-> FALSE,
              user_email |-> Slice(d, 3, p1 - 1),
              folder |-> Slice(d, p1 + 1, p2 - 1),
              basename |-> Slice(d, p2 + 1, p3 - 1),
              ext |-> Slice(d, p3, n)]
        ELSE InvalidKey

parse_from_recording_key(key) ==
    LET decoded == unquote_plus(key)
        match == KeyPatternMatch(decoded)
    IN  IF match.invalid THEN InvalidKey
        ELSE IF ~Contains(match.folder, {"_"}) THEN InvalidKey
        ELSE LET q == IndexFrom(match.folder, 1, {"_"})
             IN  [invalid |-> FALSE,
                  identifier |->
                      MeetingIdentifier(match.user_email,
                                        Slice(match.folder, 1, q - 1),
                                        Slice(match.folder, q + 1, Len(match.folder)),
                                        match.basename),
                  ext |-> match.ext]

InvalidFilename == [invalid |-> TRUE]

\* os.path.splitext on a name without path separators: the extension starts at
\* the last dot, unless only dots precede it
splitext(candidate) ==
    LET p == LastIndex(candidate, Len(candidate), {"."})
        lead == IndexFrom(candidate, 1, {tok \in {candidate[i] : i \in 1..Len(candidate)} : tok # "."})
    IN  IF p >= 1 /\ lead < p
        THEN <<Slice(candidate, 1, p - 1), Slice(candidate, p, Len(candidate))>>
        ELSE <<candidate, <<>> >>

split_filename(filename) ==
    LET candidate == Strip(filename)
        parts == splitext(candidate)
    IN  IF candidate = <<>> THEN InvalidFilename
        ELSE IF Contains(candidate, {"/", "\\"}) THEN InvalidFilename
        ELSE IF Head(candidate) = "." THEN InvalidFilename
        ELSE IF parts[1] = <<>> \/ parts[2] = <<>> THEN InvalidFilename
        ELSE IF parts[1] \in {<<".">>, <<".", ".">>} THEN InvalidFilename
        ELSE [invalid |-> FALSE, basename |-> parts[1], ext |-> parts[2]]

(***************************************************************************)
(* schemas.py: validate_summary_payload.  A decoded JSON value is an       *)
(* object (fields maps each key to the kind of value it holds, "absent"    *)
(* when the key is missing), an array, or a number.                        *)
(***************************************************************************)
required_keys ==
    <<"titulo", "temas_tratados", "resumen_general", "pendientes",
      "tags", "acuerdos", "riesgos", "decisiones">>

expected_type(key) == IF key \in {"titulo", "resumen_general"} THEN "str" ELSE "list"

\* kinds of values: "str" (a string of at most 120 characters), "str121" (a
\* string of 121 characters), "list" (non-empty), "list_empty", "int"
type_of(kind) ==
    CASE kind \in {"str", "str121"} -> "str"
      [] kind \in {"list", "list_empty"} -> "list"
      [] OTHER -> "int"

TituloMax == 120

str_len(kind) == IF kind = "str121" THEN TituloMax + 1 ELSE 10

Valid == [ok |-> TRUE, exc |-> "<none>", msg |-> "<none>", key |-> "<none>"]

Invalid(exc, msg, key) == [ok |-> FALSE, exc |-> exc, msg |-> msg, key |-> key]

\* the loop over required_keys, from position i on
RECURSIVE check_required(_, _)
check_required(fields, i) ==
    IF i > Len(required_keys) THEN Valid
    ELSE LET key == required_keys[i]
         IN  IF fields[key] = "absent"
             THEN Invalid("SummaryPayloadValidationError", "Missing key", key)
             ELSE IF type_of(fields[key]) # expected_type(key)
             THEN Invalid("SummaryPayloadValidationError", "must be of type", key)
             ELSE check_required(fields, i + 1)

\* only the first of the two lists is checked for emptiness
validate_summary_payload_tags_unchecked(payload) ==
    IF payload.shape = "number"
    THEN Invalid("TypeError", "argument of type 'int' is not iterable", "titulo")
    ELSE IF payload.shape = "array"
    THEN Invalid("SummaryPayloadValidationError", "Missing key", "titulo")
    ELSE LET fields == payload.fields
             req == check_required(fields, 1)
         IN  IF ~req.ok THEN req
             ELSE IF str_len(fields["titulo"]) > TituloMax
             THEN Invalid("SummaryPayloadValidationError", "exceeds", "titulo")
             ELSE IF fields["temas_tratados"] = "list_empty"
             THEN Invalid("SummaryPayloadValidationError", "must contain at least one item",
                          "temas_tratados")
             ELSE Valid

validate_summary_payload(payload) ==
    IF payload.shape = "number"
    THEN Invalid("TypeError", "argument of type 'int' is not iterable", "titulo")
    ELSE IF payload.shape = "array"
    THEN Invalid("SummaryPayloadValidationError", "Missing key", "titulo")
    ELSE LET fields == payload.fields
             req == check_required(fields, 1)
         IN  IF ~req.ok THEN req
             ELSE IF str_len(fields["titulo"]) > TituloMax
             THEN Invalid("SummaryPayloadValidationError", "exceeds", "titulo")
             ELSE IF fields["temas_tratados"] = "list_empty"
             THEN Invalid("SummaryPayloadValidationError", "must contain at least one item",
                          "temas_tratados")
             ELSE IF fields["tags"] = "list_empty"
             THEN Invalid("SummaryPayloadValidationError", "must contain at least one item", "tags")
             ELSE Valid

(***************************************************************************)
(* repository.py: MeetingArtifactRepository over one DynamoDB table.       *)
(* table maps the primary keys of the stored items to the items; an        *)
(* attribute an item does not have is None (0 for the time stamps).        *)
(***************************************************************************)
NoMessage == [text |-> "<none>", len |-> 0]

EmptyItem ==
    [user_email |-> None, meeting_name |-> None, meeting_date |-> None,
     basename |-> None, ext |-> None, s3_key_recording |-> None,
     status |-> "<none>", updated_at |-> 0, created_at |-> 0,
     s3_key_transcription |-> None, s3_key_summary |-> None,
     error_code |-> None, error_message |-> NoMessage,
     duration_sec |-> None, language |-> None]

\* table.update_item(Key={"pk": pk}, "SET ..."): the SET clauses are applied to
\* the stored item, or to a new item holding only the key when none is stored
StoredOrNew(tbl, pk) == IF pk \in DOMAIN tbl THEN tbl[pk] ELSE EmptyItem

update_item(tbl, pk, item) ==
    [k \in DOMAIN tbl \cup {pk} |-> IF k = pk THEN item ELSE tbl[k]]

\* created_at written by every call, without if_not_exists
upsert_recording_created_always(tbl, identifier, ext, s3_key_recording, status, t) ==
    LET pk == compose_pk(identifier)
        old == StoredOrNew(tbl, pk)
    IN  update_item(tbl, pk,
            [old EXCEPT !.user_email = identifier.user_email,
                        !.meeting_name = identifier.meeting_name,
                        !.meeting_date = identifier.meeting_date,
                        !.basename = identifier.basename,
                        !.ext = ext,
                        !.s3_key_recording = s3_key_recording,
                        !.status = status,
                        !.updated_at = t,
                        !.created_at = t])

upsert_recording(tbl, identifier, ext, s3_key_recording, status, t) ==
    LET pk == compose_pk(identifier)
        old == StoredOrNew(tbl, pk)
    IN  update_item(tbl, pk,
            [old EXCEPT !.user_email = identifier.user_email,
                        !.meeting_name = identifier.meeting_name,
                        !.meeting_date = identifier.meeting_date,
                        !.basename = identifier.basename,
                        !.ext = ext,
                        !.s3_key_recording = s3_key_recording,
                        !.status = status,
                        !.updated_at = t,
                        !.created_at = IF @ = 0 THEN t ELSE @])

update_with_transcription(tbl, identifier, s3_key_transcription, status, duration_sec, language, t) ==
    LET pk == compose_pk(identifier)
        old == StoredOrNew(tbl, pk)
    IN  update_item(tbl, pk,
            [old EXCEPT !.s3_key_transcription = s3_key_transcription,
                        !.status = status,
                        !.updated_at = t,
                        !.duration_sec = IF duration_sec # None THEN duration_sec ELSE @,
                        !.language = IF language # None THEN language ELSE @])

update_with_summary(tbl, identifier, s3_key_summary, status, t) ==
    LET pk == compose_pk(identifier)
        old == StoredOrNew(tbl, pk)
    IN  update_item(tbl, pk,
            [old EXCEPT !.s3_key_summary = s3_key_summary,
                        !.status = status,
                        !.updated_at = t])

update_status(tbl, identifier, status, t) ==
    LET pk == compose_pk(identifier)
        old == StoredOrNew(tbl, pk)
    IN  update_item(tbl, pk, [old EXCEPT !.status = status, !.updated_at = t])

mark_failed(tbl, identifier, error_code, error_message, t) ==
    LET pk == compose_pk(identifier)
        old == StoredOrNew(tbl, pk)
    IN  update_item(tbl, pk,
            [old EXCEPT !.status = FAILED,
                        !.updated_at = t,
                        !.error_code = IF error_code # None THEN error_code ELSE @,
                        !.error_message =
                            IF error_message # NoMessage THEN error_message ELSE @])

\* MeetingArtifactRepository.get: None when no item is stored
HasItem(tbl, identifier) == compose_pk(identifier) \in DOMAIN tbl

get(tbl, identifier) == tbl[compose_pk(identifier)]

\* the order of Python's str comparison on the dates and basenames of the
\* model; an attribute that is missing reads as "" (item.get(name, ""))
Collation ==
    <<None, Str("2025-10-24"), Str("2025-10-25"), Str("2025-10-26"),
      Str("a"), Str("b"), Str("missing"), Str("notes"), Str("rec123")>>

Rank(s) == CHOOSE i \in 1..Len(Collation) : Collation[i] = s

\* `if user_email:` and the like: a filter that is None or "" is not applied
Given(filter) == filter # None /\ filter # <<>>

\* Attr(name).eq / gte / lte of the FilterExpression: an item without the
\* attribute does not match
FilterExpression(item, user_email, meeting_name, status, from_date, to_date) ==
    /\ Given(user_email) => item.user_email = user_email
    /\ Given(meeting_name) => item.meeting_name = meeting_name
    /\ status # "<none>" => item.status = status
    /\ Given(from_date) =>
          item.meeting_date # None /\ Rank(item.meeting_date) >= Rank(from_date)
    /\ Given(to_date) =>
          item.meeting_date # None /\ Rank(item.meeting_date) <= Rank(to_date)

\* the sort key (meeting_date, basename) of one item below that of another
KeyLess(a, b) ==
    \/ Rank(a.meeting_date) < Rank(b.meeting_date)
    \/ /\ Rank(a.meeting_date) = Rank(b.meeting_date)
       /\ Rank(a.basename) < Rank(b.basename)

\* items.sort(key=..., reverse=True): descending and stable, items with equal
\* keys keep the order of the scan
RECURSIVE InsertDesc(_, _, _)
InsertDesc(tbl, sorted, pk) ==
    IF sorted = <<>> THEN <<pk>>
    ELSE IF KeyLess(tbl[Head(sorted)], tbl[pk]) THEN <<pk>> \o sorted
    ELSE <<Head(sorted)>> \o InsertDesc(tbl, Tail(sorted), pk)

RECURSIVE SortDesc(_, _)
SortDesc(tbl, scan) ==
    IF scan = <<>> THEN <<>>
    ELSE InsertDesc(tbl, SortDesc(tbl, SubSeq(scan, 1, Len(scan) - 1)), scan[Len(scan)])

\* items[start:end]
PySlice(s, start, end) ==
    Slice(s, start + 1, IF end < Len(s) THEN end ELSE Len(s))

\* the page starts one page further down the sorted items
list_meetings_page_from_one(tbl, scan, user_email, meeting_name, status, from_date, to_date, page, page_size) ==
    LET matching ==
            SelectSeq(scan, LAMBDA pk : FilterExpression(tbl[pk], user_email, meeting_name,
                                                         status, from_date, to_date))
        items == SortDesc(tbl, matching)
        start == page * page_size
    IN  [items |-> PySlice(items, start, start + page_size), total |-> Len(items)]

\* MeetingArtifactRepository.list_meetings.  scan is the order in which
\* table.scan returns the items, each named by its primary key; the result
\* names the artefacts of the page the same way.
list_meetings(tbl, scan, user_email, meeting_name, status, from_date, to_date, page, page_size) ==
    LET matching ==
            SelectSeq(scan, LAMBDA pk : FilterExpression(tbl[pk], user_email, meeting_name,
                                                         status, from_date, to_date))
        items == SortDesc(tbl, matching)
        start == (page - 1) * page_size
    IN  [items |-> PySlice(items, start, start + page_size), total |-> Len(items)]

(***************************************************************************)
(* handlers.py: helpers                                                    *)
(***************************************************************************)
\* the upload is left out
put_object_skipped(bucket, key) == bucket

\* s3_client.put_object(Bucket=..., Key=key, ...)
put_object(bucket, key) == bucket \cup {key}

MaxMessageLen == 500

Truncate(message) ==
    [message EXCEPT !.len = IF @ > MaxMessageLen THEN MaxMessageLen ELSE @]

\* the message stored as it comes
MarkFailed_untruncated(tbl, paths, error_code, error_message, t) ==
    mark_failed(tbl, paths.identifier, Str(error_code), error_message, t)

\* _mark_failed
MarkFailed(tbl, paths, error_code, error_message, t) ==
    mark_failed(tbl, paths.identifier, Str(error_code), Truncate(error_message), t)

\* settings.ALLOW_EXTS
ALLOW_EXTS == {<<".", "mp3">>, <<".", "mp4">>, <<".", "m4a">>, <<".", "wav">>}

\* no extension is refused
_allowed_exts_unset == {}

_allowed_exts == ALLOW_EXTS

_allowed_extensions == {Lower(ext) : ext \in ALLOW_EXTS}

Message(text, len) == [text |-> text, len |-> len]

(***************************************************************************)
(* Inputs: the requests and events the environment sends.                  *)
(***************************************************************************)
Basenames == {Str("rec123")}

Owner == <<"alice@x", ".", "com">>

MeetingName == Str("Daily")

MeetingDate == Str("2025-10-25")

Mp4 == <<".", "mp4">>

IdentifierOf(basename) == MeetingIdentifier(Owner, MeetingName, MeetingDate, basename)

GoodKeys == {recording_key(MeetingS3Paths(IdentifierOf(b), Mp4)) : b \in Basenames}

\* the key of the end-to-end scenario of the specification
SpecExampleKey ==
    <<"recordings", "/">> \o Owner \o <<"/", "Daily", "_", "2025-10-25", "/", "rec123", ".", "mp4">>

DisallowedKey ==
    recording_key(MeetingS3Paths(IdentifierOf(Str("rec123")), <<".", "txt">>))

EventKeys == GoodKeys \cup {SpecExampleKey, DisallowedKey, <<>>}

Events == UNION {[1..n -> EventKeys] : n \in 1..MaxRecords}

StageKeys == GoodKeys \cup {SpecExampleKey}

\* the meeting names and the names of the files that clients upload: plain
\* ones, a name with an underscore, a name with the separator of the primary
\* key, a file name with two dots
IntakeNames == {MeetingName, <<"Weekly", "_", "Sync">>, <<"Q", "#", "1">>}

IntakeBasenames == Basenames \cup {<<"my", ".", "file">>}

\* the keys the upload-URL endpoint returns for them
UploadedKeys ==
    {recording_key(MeetingS3Paths(MeetingIdentifier(Owner, n, MeetingDate, b), Mp4)) :
        n \in IntakeNames, b \in IntakeBasenames}

\* the key of an object put under the recordings prefix without the endpoint
DirectKeys == {<<"grabaciones", "/">> \o Owner \o <<"/", "_", "/", "rec123", ".", "mp4">>}

\* the keys of the notifications that start a pipeline execution, URL-encoded
\* as the storage service sends them: the objects rec123.mp4, a+b.mp4 and
\* save%.mp4
PipelineEventKeys ==
    {<<"grabaciones", "/">> \o Owner \o <<"/", "Daily", "_", "2025-10-25", "/">> \o b \o Mp4 :
        b \in {<<"rec123">>, <<"a", "%2B", "b">>, <<"save", "%25">>}}

\* json.dumps({"recording_key": paths.recording_key}): the key that ingest puts
\* in the execution input, <<>> when the notification is refused
ExecutionInput(key) ==
    LET paths == parse_from_recording_key(key)
    IN  IF paths.invalid THEN <<>> ELSE recording_key(paths)

PipelineKeys == PipelineEventKeys \cup {ExecutionInput(key) : key \in PipelineEventKeys}

\* parse_from_recording_key on the keys the environment sends
ParsedKeys ==
    [key \in EventKeys \cup StageKeys \cup UploadedKeys \cup DirectKeys \cup PipelineKeys |->
        parse_from_recording_key(key)]

Parse(key) == ParsedKeys[key]

Filenames ==
    {b \o Mp4 : b \in Basenames}
        \cup {<<"rec123", ".", "MP4">>, <<"notes", ".", "txt">>, <<"noext">>, <<" ">>}

ReasonLens == {40, 501}

ObjectShape(fields) == [shape |-> "object", fields |-> fields]

ValidFields ==
    [key \in {required_keys[i] : i \in 1..Len(required_keys)} |->
        IF expected_type(key) = "str" THEN "str" ELSE "list"]

NoPayload == [shape |-> "<none>", fields |-> ValidFields]

ValueKinds == {"absent", "str", "str121", "list", "list_empty", "int"}

\* the valid payload, and the valid payload with one field changed
LlmPayloads ==
    {ObjectShape([ValidFields EXCEPT ![key] = kind]) :
        key \in DOMAIN ValidFields, kind \in ValueKinds}
        \cup {[shape |-> "array", fields |-> ValidFields],
              [shape |-> "number", fields |-> ValidFields]}

(***************************************************************************)
(* State.  inv is the handler invocation in progress, last the outcome of   *)
(* the last handler or request that finished.                              *)
(***************************************************************************)
Idle ==
    [op |-> "idle", pc |-> "idle", key |-> <<>>, records |-> <<>>, arn |-> FALSE,
     duration |-> None, language |-> None]

NoLast ==
    [op |-> "<none>", key |-> <<>>, pk |-> None, outcome |-> "<none>", exc |-> "<none>",
     cause |-> "<none>", http |-> 0, authorized |-> TRUE, status |-> "<none>",
     error_code |-> None, error_message |-> NoMessage, uri |-> "<none>",
     language |-> None, payload |-> NoPayload, effects |-> {}, total |-> 0,
     skipped |-> <<>>, handed |-> <<>>]

Returned(op, key, pk) ==
    [NoLast EXCEPT !.op = op, !.key = key, !.pk = pk, !.outcome = "return"]

Raised(op, key, pk, exc, cause) ==
    [NoLast EXCEPT !.op = op, !.key = key, !.pk = pk, !.outcome = "raise",
                   !.exc = exc, !.cause = cause]

\* the answer to a request; authorized tells whether the authenticated identity
\* is the owner the request names, effects what the endpoint did before answering
Responded(op, pk, http, authorized, effects) ==
    [NoLast EXCEPT !.op = op, !.pk = pk, !.outcome = "response", !.http = http,
                   !.authorized = authorized, !.effects = effects]

Init ==
    /\ table = <<>>
    /\ objects = {}
    /\ now = 0
    /\ inv = Idle
    /\ last = NoLast

(***************************************************************************)
(* handlers.py: ingest_handler                                             *)
(***************************************************************************)
RECURSIVE SkipEmpty(_)
\* a record without a key is not passed over
SkipEmpty_none(records) == records

\* if not bucket_key: continue
SkipEmpty(records) ==
    IF records = <<>> THEN records
    ELSE IF Head(records) = <<>> THEN SkipEmpty(Tail(records))
    ELSE records

\* outcomes of an AWS client call
CallOutcomes == {"ok", "ClientError", "OtherError"}

\* what the handler has done for a record it has dealt with: the upsert, and
\* start_execution when PIPELINE_STATE_MACHINE_ARN is set
IngestEffects(arn) ==
    IF arn THEN {"upsert_recording", "start_execution"} ELSE {"upsert_recording"}

\* the loop over event["Records"], up to the next repository write; when the
\* handler ends, effects holds what it did for the record it ended at and
\* handed the recording_key of the execution input it started; when it raises,
\* skipped holds the records of the event it has not come to
IngestLoop(records, arn) ==
    \E rs \in {SkipEmpty(records)} :
        IF rs = <<>>
        THEN /\ inv' = Idle
             /\ last' = Returned("ingest", <<>>, None)
             /\ UNCHANGED <<table, objects, now>>
        ELSE \E key \in {Head(rs)} : \E paths \in {Parse(key)} :
                 IF paths.invalid
                 THEN /\ inv' = Idle
                      /\ last' = [Raised("ingest", key, None, "ValueError", "invalid_key")
                                     EXCEPT !.skipped = Tail(rs)]
                      /\ UNCHANGED <<table, objects, now>>
                 ELSE IF _allowed_exts # {} /\ paths.ext \notin _allowed_exts
                 THEN /\ inv' = Idle
                      /\ last' = [Raised("ingest", key, None, "ValueError", "extension")
                                     EXCEPT !.skipped = Tail(rs)]
                      /\ UNCHANGED <<table, objects, now>>
                 ELSE /\ now < MaxClock
                      /\ now' = now + 1
                      /\ table' = upsert_recording(table, paths.identifier, paths.ext,
                                                   recording_key(paths), TRANSCRIBING, now')
                      /\ UNCHANGED objects
                      /\ \E outcome \in (IF arn THEN CallOutcomes ELSE {"ok"}) :
                            CASE outcome = "ok" ->
                                    IF SkipEmpty(Tail(rs)) = <<>>
                                    THEN /\ inv' = Idle
                                         /\ last' = [Returned("ingest", key,
                                                              compose_pk(paths.identifier))
                                                        EXCEPT !.effects = IngestEffects(arn),
                                                               !.handed =
                                                                   IF arn THEN recording_key(paths)
                                                                   ELSE <<>>]
                                    ELSE /\ inv' = [Idle EXCEPT !.op = "ingest",
                                                                !.pc = "record",
                                                                !.records = Tail(rs),
                                                                !.arn = arn]
                                         /\ UNCHANGED last
                              [] outcome = "ClientError" ->
                                    /\ inv' = [Idle EXCEPT !.op = "ingest",
                                                           !.pc = "mark_failed",
                                                           !.key = key,
                                                           !.records = Tail(rs)]
                                    /\ UNCHANGED last
                              [] OTHER ->
                                    /\ inv' = Idle
                                    /\ last' = [Raised("ingest", key,
                                                       compose_pk(paths.identifier),
                                                       "BotoCoreError", "pipeline_start")
                                                   EXCEPT !.skipped = Tail(rs),
                                                          !.effects = {"upsert_recording"}]

IngestStart ==
    /\ inv = Idle
    /\ \E event \in Events, arn \in BOOLEAN : IngestLoop(event, arn)

IngestNext ==
    /\ inv.op = "ingest"
    /\ inv.pc = "record"
    /\ IngestLoop(inv.records, inv.arn)

IngestMarkFailed ==
    /\ inv.op = "ingest"
    /\ inv.pc = "mark_failed"
    /\ now < MaxClock
    /\ now' = now + 1
    /\ LET paths == Parse(inv.key)
       IN  /\ table' = MarkFailed(table, paths, "PIPELINE_START_ERROR",
                                  Message("ClientError", 80), now')
           /\ last' = [Raised("ingest", inv.key, compose_pk(paths.identifier),
                              "ClientError", "pipeline_start")
                          EXCEPT !.skipped = inv.records,
                                 !.effects = {"upsert_recording", "mark_failed"}]
    /\ inv' = Idle
    /\ UNCHANGED objects

(***************************************************************************)
(* handlers.py: start_transcription_handler, poll_transcription_handler    *)
(***************************************************************************)
\* an invocation with event["recording_key"] = key
start_transcription_handler(key) ==
    \E outcome \in CallOutcomes :
          LET paths == Parse(key)
          IN  IF paths.invalid
              THEN /\ last' = Raised("start_transcription", key, None,
                                     "ValueError", "invalid_key")
                   /\ UNCHANGED <<table, objects, now, inv>>
              ELSE LET pk == compose_pk(paths.identifier)
                   IN  CASE outcome = "ok" ->
                               /\ last' = [Returned("start_transcription", key, pk)
                                              EXCEPT !.status = "IN_PROGRESS"]
                               /\ UNCHANGED <<table, objects, now, inv>>
                         [] outcome = "ClientError" ->
                               /\ now < MaxClock
                               /\ now' = now + 1
                               /\ table' = MarkFailed(table, paths, "TRANSCRIBE_START_ERROR",
                                                      Message("ClientError", 80), now')
                               /\ last' = Raised("start_transcription", key, pk,
                                                 "ClientError", "transcribe_submit")
                               /\ UNCHANGED <<objects, inv>>
                         [] OTHER ->
                               /\ last' = Raised("start_transcription", key, pk,
                                                 "BotoCoreError", "transcribe_submit")
                               /\ UNCHANGED <<table, objects, now, inv>>

StartTranscription ==
    /\ inv = Idle
    /\ \E key \in StageKeys : start_transcription_handler(key)

\* what get_transcription_job answers: the call fails, or the job is in one of
\* its states, or the answer names no state; a COMPLETED job may come without a
\* transcript URI; reason is the length of FailureReason, 0 when there is none
JobAnswers ==
    {[call |-> c, job |-> "<none>", uri |-> "<none>", reason |-> 0] :
        c \in {"ClientError", "OtherError"}}
        \cup {[call |-> "ok", job |-> "FAILED", uri |-> "<none>", reason |-> n] :
                n \in ReasonLens}
        \cup {[call |-> "ok", job |-> "<none>", uri |-> "<none>", reason |-> 0]}
        \cup {[call |-> "ok", job |-> j, uri |-> "<none>", reason |-> 0] :
                j \in {"IN_PROGRESS", "QUEUED"}}
        \cup {[call |-> "ok", job |-> "COMPLETED", uri |-> u, reason |-> 0] :
                u \in {"s3", "<none>"}}

LanguageCodes == {Str("es-ES")}

\* job.get("FailureReason", "Unknown failure")
FailureReason(answer) ==
    IF answer.reason = 0 THEN Message("Unknown failure", 15)
    ELSE Message("FailureReason", answer.reason)

\* an invocation with event["recording_key"] = key
poll_transcription_handler(key) ==
    \E answer \in JobAnswers, language_code \in LanguageCodes :
          LET paths == Parse(key)
          IN  IF paths.invalid
              THEN /\ last' = Raised("poll_transcription", key, None,
                                     "ValueError", "invalid_key")
                   /\ UNCHANGED <<table, objects, now, inv>>
              ELSE LET pk == compose_pk(paths.identifier)
                   IN  CASE answer.call = "ClientError" ->
                               /\ now < MaxClock
                               /\ now' = now + 1
                               /\ table' = MarkFailed(table, paths, "TRANSCRIBE_STATUS_ERROR",
                                                      Message("ClientError", 80), now')
                               /\ last' = Raised("poll_transcription", key, pk,
                                                 "ClientError", "transcribe_status")
                               /\ UNCHANGED <<objects, inv>>
                         [] answer.call = "OtherError" ->
                               /\ last' = Raised("poll_transcription", key, pk,
                                                 "BotoCoreError", "transcribe_status")
                               /\ UNCHANGED <<table, objects, now, inv>>
                         [] answer.call = "ok" /\ answer.job \in {"FAILED", "<none>"} ->
                               /\ now < MaxClock
                               /\ now' = now + 1
                               /\ table' = MarkFailed(table, paths, "TRANSCRIBE_FAILED",
                                                      FailureReason(answer), now')
                               /\ last' = [Returned("poll_transcription", key, pk)
                                              EXCEPT !.status = "FAILED",
                                                     !.error_message = FailureReason(answer)]
                               /\ UNCHANGED <<objects, inv>>
                         [] answer.call = "ok" /\ answer.job = "COMPLETED" ->
                               /\ last' = [Returned("poll_transcription", key, pk)
                                              EXCEPT !.status = "COMPLETED",
                                                     !.uri = answer.uri,
                                                     !.language = language_code]
                               /\ UNCHANGED <<table, objects, now, inv>>
                         [] OTHER ->
                               /\ last' = [Returned("poll_transcription", key, pk)
                                              EXCEPT !.status = "IN_PROGRESS"]
                               /\ UNCHANGED <<table, objects, now, inv>>

PollTranscription ==
    /\ inv = Idle
    /\ \E key \in StageKeys : poll_transcription_handler(key)

(***************************************************************************)
(* handlers.py: store_transcription_handler, transcribe_job                *)
(***************************************************************************)
\* what the handler meets on its way to put_object of the transcript.  The
\* transcript_uri of the event is absent, an S3 location, or a URI of a form
\* _parse_s3_uri does not support; the download of the raw job output fails,
\* the document cannot be normalized, or it is normalized to a payload with a
\* duration; put_object succeeds or fails
StoreInputs ==
    {[uri |-> u, raw |-> "<none>", put |-> "<none>"] : u \in {"<none>", "unsupported"}}
        \cup {[uri |-> "s3", raw |-> r, put |-> "<none>"] :
                r \in {"download_error", "malformed"}}
        \cup {[uri |-> "s3", raw |-> "duration", put |-> p] : p \in {"ok", "error"}}

\* the forms of event["transcript_uri"]
TranscriptUris == {"<none>", "s3", "unsupported"}

\* an invocation with event["recording_key"] = key and event["transcript_uri"]
\* of one of the forms uris, up to put_object
store_transcription_handler(key, uris) ==
    \E input \in {i \in StoreInputs : i.uri \in uris}, language_code \in LanguageCodes :
          LET paths == Parse(key)
              uri == input.uri
              raw == input.raw
              put == input.put
          IN  IF paths.invalid
              THEN /\ last' = Raised("store_transcription", key, None,
                                     "ValueError", "invalid_key")
                   /\ UNCHANGED <<table, objects, now, inv>>
              ELSE LET pk == compose_pk(paths.identifier)
                   IN  CASE uri = "<none>" ->
                               /\ now < MaxClock
                               /\ now' = now + 1
                               /\ table' = MarkFailed(table, paths, "TRANSCRIBE_NO_OUTPUT",
                                                      Message("no transcript URI", 47), now')
                               /\ last' = Raised("store_transcription", key, pk,
                                                 "ValueError", "no_transcript_uri")
                               /\ UNCHANGED <<objects, inv>>
                         [] uri = "unsupported" ->
                               /\ last' = Raised("store_transcription", key, pk,
                                                 "ValueError", "unsupported_uri")
                               /\ UNCHANGED <<table, objects, now, inv>>
                         [] uri = "s3" /\ raw = "download_error" ->
                               /\ now < MaxClock
                               /\ now' = now + 1
                               /\ table' = MarkFailed(table, paths, "TRANSCRIBE_DOWNLOAD_ERROR",
                                                      Message("ClientError", 80), now')
                               /\ last' = Raised("store_transcription", key, pk,
                                                 "ClientError", "storage_download")
                               /\ UNCHANGED <<objects, inv>>
                         [] uri = "s3" /\ raw = "malformed" ->
                               /\ last' = Raised("store_transcription", key, pk,
                                                 "AttributeError", "raw_output")
                               /\ UNCHANGED <<table, objects, now, inv>>
                         [] OTHER ->
                               IF put = "error"
                               THEN /\ last' = Raised("store_transcription", key, pk,
                                                      "ClientError", "storage_upload")
                                    /\ UNCHANGED <<table, objects, now, inv>>
                               ELSE /\ objects' = put_object(objects, transcription_key(paths))
                                    /\ inv' = [Idle EXCEPT
                                                 !.op = "store_transcription",
                                                 !.pc = "update",
                                                 !.key = key,
                                                 !.duration = IF raw = "duration"
                                                              THEN Str("2.5") ELSE None,
                                                 !.language = IF language_code # None
                                                              THEN language_code
                                                              ELSE Str("unknown")]
                                    /\ UNCHANGED <<table, now, last>>

StoreTranscription ==
    /\ inv = Idle
    /\ \E key \in StageKeys : store_transcription_handler(key, TranscriptUris)

\* transcribe_job after put_object: repo.update_with_transcription
StoreTranscriptionUpdate ==
    /\ inv.op = "store_transcription"
    /\ inv.pc = "update"
    /\ now < MaxClock
    /\ now' = now + 1
    /\ LET paths == Parse(inv.key)
       IN  /\ table' = update_with_transcription(table, paths.identifier,
                                                 transcription_key(paths), TRANSCRIBED,
                                                 inv.duration, inv.language, now')
           /\ last' = [Returned("store_transcription", inv.key, compose_pk(paths.identifier))
                          EXCEPT !.status = TRANSCRIBED]
    /\ inv' = Idle
    /\ UNCHANGED objects

(***************************************************************************)
(* handlers.py: generate_summary_handler, summarize_job                    *)
(***************************************************************************)
\* what bedrock invoke_model answers: the call fails, the body is not JSON,
\* the body has no results, outputText is not JSON, or outputText decodes to
\* a JSON value
LlmFailures == {"invoke_error", "body_not_json", "no_results", "output_not_json"}

LlmExc(failure) ==
    CASE failure = "invoke_error" -> "ClientError"
      [] failure = "no_results" -> "ValueError"
      [] OTHER -> "JSONDecodeError"

\* the except clause that handles an exception of generate_summary's try block
LlmErrorCode(exc) ==
    IF exc = "SummaryPayloadValidationError" THEN "LLM_INVALID_OUTPUT" ELSE "LLM_ERROR"

\* an invocation with event["recording_key"] = key, up to repo.update_status
generate_summary_handler(key) ==
    LET paths == Parse(key)
    IN  IF paths.invalid
        THEN /\ last' = Raised("generate_summary", key, None, "ValueError", "invalid_key")
             /\ UNCHANGED <<table, objects, now, inv>>
        ELSE /\ now < MaxClock
             /\ now' = now + 1
             /\ table' = update_status(table, paths.identifier, SUMMARIZING, now')
             /\ inv' = [Idle EXCEPT !.op = "generate_summary", !.pc = "load", !.key = key]
             /\ UNCHANGED <<objects, last>>

GenerateSummary ==
    /\ inv = Idle
    /\ \E key \in StageKeys : generate_summary_handler(key)

GenerateSummaryFail(paths, error_code, exc, cause, message, payload) ==
    /\ now < MaxClock
    /\ now' = now + 1
    /\ table' = MarkFailed(table, paths, error_code, message, now')
    /\ last' = [Raised("generate_summary", inv.key, compose_pk(paths.identifier), exc, cause)
                   EXCEPT !.error_message = message, !.payload = payload]
    /\ inv' = Idle
    /\ UNCHANGED objects

\* from the download of the transcript to put_object of the summary
GenerateSummaryRun ==
    /\ inv.op = "generate_summary"
    /\ inv.pc = "load"
    /\ LET paths == Parse(inv.key)
           pk == compose_pk(paths.identifier)
       IN  \/ \* get_object fails: the object is missing or the call fails
              GenerateSummaryFail(paths, "TRANSCRIPT_NOT_FOUND", "ClientError",
                                  "storage_download", Message("ClientError", 80), NoPayload)
           \/ /\ transcription_key(paths) \in objects
              /\ \/ \E failure \in LlmFailures :
                       GenerateSummaryFail(paths, LlmErrorCode(LlmExc(failure)),
                                           LlmExc(failure), failure,
                                           Message(LlmExc(failure), 60), NoPayload)
                 \/ \E payload \in LlmPayloads :
                       \E verdict \in {validate_summary_payload(payload)} :
                           IF ~verdict.ok
                           THEN GenerateSummaryFail(paths, LlmErrorCode(verdict.exc),
                                                    verdict.exc, "llm_output",
                                                    Message(verdict.msg, 40), payload)
                           ELSE \/ \* summarize_job: put_object fails
                                   /\ last' = Raised("generate_summary", inv.key, pk,
                                                     "ClientError", "storage_upload")
                                   /\ inv' = Idle
                                   /\ UNCHANGED <<table, objects, now>>
                                \/ /\ objects' = put_object(objects, summary_key(paths))
                                   /\ inv' = [inv EXCEPT !.pc = "update"]
                                   /\ UNCHANGED <<table, now, last>>

\* summarize_job after put_object: repo.update_with_summary
GenerateSummaryUpdate ==
    /\ inv.op = "generate_summary"
    /\ inv.pc = "update"
    /\ now < MaxClock
    /\ now' = now + 1
    /\ LET paths == Parse(inv.key)
       IN  /\ table' = update_with_summary(table, paths.identifier, summary_key(paths),
                                           SUMMARIZED, now')
           /\ last' = [Returned("generate_summary", inv.key, compose_pk(paths.identifier))
                          EXCEPT !.status = SUMMARIZED]
    /\ inv' = Idle
    /\ UNCHANGED objects

(***************************************************************************)
(* router.py: the meetings endpoints                                       *)
(***************************************************************************)
\* the requests: one well-formed request, and the requests that differ from it
\* in one respect or two
UploadRequest(authorized, meeting_name, filename, presign) ==
    [authorized |-> authorized, meeting_name |-> meeting_name, filename |-> filename,
     presign |-> presign]

UploadRequests ==
    {UploadRequest(TRUE, MeetingName, f, "ok") : f \in Filenames}
        \cup {UploadRequest(FALSE, MeetingName, <<"rec123">> \o Mp4, "ok"),
              UploadRequest(FALSE, MeetingName, <<"notes", ".", "txt">>, "ok"),
              UploadRequest(FALSE, <<" ">>, <<"rec123">> \o Mp4, "ok"),
              UploadRequest(TRUE, <<" ">>, <<"rec123">> \o Mp4, "ok"),
              UploadRequest(TRUE, MeetingName, <<"rec123">> \o Mp4, "error")}

Read == "repository_read"
Write == "repository_write"
Presign == "presign"

UploadAnswer(http, effects, tbl, key, pk) ==
    [http |-> http, effects |-> effects, table |-> tbl, key |-> key, pk |-> pk]

\* the record is written before the extension is checked against the allow-list
create_upload_url_upsert_first(tbl, request, t) ==
    LET name == Strip(request.meeting_name)
        split == split_filename(Strip(request.filename))
        identifier == MeetingIdentifier(Owner, name, MeetingDate, split.basename)
        paths == MeetingS3Paths(identifier, Lower(split.ext))
        written == upsert_recording(tbl, identifier, paths.ext, recording_key(paths),
                                    UPLOADED, t)
    IN  IF name = <<>> \/ Contains(name, {"/", "\\"}) \/ Strip(request.filename) = <<>>
        THEN UploadAnswer(422, {}, tbl, <<>>, None)
        ELSE IF ~request.authorized THEN UploadAnswer(403, {}, tbl, <<>>, None)
        ELSE IF split.invalid THEN UploadAnswer(400, {}, tbl, <<>>, None)
        ELSE IF _allowed_extensions # {} /\ paths.ext \notin _allowed_extensions
        THEN UploadAnswer(400, {Write, Read}, written, <<>>, None)
        ELSE UploadAnswer(IF request.presign = "ok" THEN 201 ELSE 500,
                          {Write, Read, Presign}, written,
                          recording_key(paths), compose_pk(identifier))

\* create_upload_url: the answer and the table it leaves; t is the time of the
\* write.  The validators of CreateUploadUrlRequest run before the endpoint.
create_upload_url(tbl, request, t) ==
    LET name == Strip(request.meeting_name)
        split == split_filename(Strip(request.filename))
        identifier == MeetingIdentifier(Owner, name, MeetingDate, split.basename)
        paths == MeetingS3Paths(identifier, Lower(split.ext))
    IN  IF name = <<>> \/ Contains(name, {"/", "\\"}) \/ Strip(request.filename) = <<>>
        THEN UploadAnswer(422, {}, tbl, <<>>, None)
        ELSE IF ~request.authorized THEN UploadAnswer(403, {}, tbl, <<>>, None)
        ELSE IF split.invalid THEN UploadAnswer(400, {}, tbl, <<>>, None)
        ELSE IF _allowed_extensions # {} /\ paths.ext \notin _allowed_extensions
        THEN UploadAnswer(400, {}, tbl, <<>>, None)
        ELSE UploadAnswer(IF request.presign = "ok" THEN 201 ELSE 500,
                          {Write, Read, Presign},
                          upsert_recording(tbl, identifier, paths.ext, recording_key(paths),
                                           UPLOADED, t),
                          recording_key(paths), compose_pk(identifier))

\* POST /meetings/upload-url with one request
PostUploadUrl(request) ==
    \E answer \in {create_upload_url(table, request, now + 1)} :
    LET wrote == Write \in answer.effects
    IN  /\ wrote => now < MaxClock
        /\ now' = IF wrote THEN now + 1 ELSE now
        /\ table' = answer.table
        /\ last' = [Responded("create_upload_url", answer.pk, answer.http,
                              request.authorized, answer.effects)
                       EXCEPT !.key = answer.key,
                              !.status = IF answer.pk # None THEN UPLOADED ELSE @]
        /\ UNCHANGED <<objects, inv>>

CreateUploadUrl ==
    /\ inv = Idle
    /\ \E request \in UploadRequests : PostUploadUrl(request)

\* the processing check left out: only a failed pipeline is reported
_check_processing_state_failed_only(artefact) ==
    IF artefact.status = FAILED THEN 424 ELSE 0

\* _check_processing_state: the status of the error it raises, 0 when it returns
_check_processing_state(artefact) ==
    IF is_processing(artefact.status) THEN 409
    ELSE IF artefact.status = FAILED THEN 424
    ELSE 0

\* the identifiers a client asks for: the stored ones and one that is not stored
RequestIdentifiers ==
    {IdentifierOf(b) : b \in Basenames} \cup {IdentifierOf(Str("missing"))}

\* download is the outcome of the storage call the endpoint ends with
GetRequests ==
    {[identifier |-> i, authorized |-> TRUE, download |-> d] :
        i \in RequestIdentifiers, d \in {"ok", "FileNotFoundError"}}
        \cup {[identifier |-> i, authorized |-> FALSE, download |-> "ok"] :
                i \in RequestIdentifiers}

\* the artefact is fetched before the caller is checked against the owner
Guarded_fetch_first(op, identifier, authorized) ==
    LET pk == compose_pk(identifier)
    IN  IF ~HasItem(table, identifier) THEN Responded(op, pk, 404, authorized, {Read})
        ELSE IF ~authorized THEN Responded(op, pk, 403, FALSE, {Read})
        ELSE LET artefact == get(table, identifier)
                 blocked == _check_processing_state(artefact)
             IN  IF blocked = 424
                 THEN [Responded(op, pk, 424, TRUE, {Read})
                          EXCEPT !.error_code = artefact.error_code,
                                 !.error_message = artefact.error_message]
                 ELSE Responded(op, pk, blocked, TRUE, {Read})

\* the error that _ensure_authorized, _fetch_artifact_or_error and
\* _check_processing_state raise for a request, an answer with http 0 when none
Guarded(op, identifier, authorized) ==
    LET pk == compose_pk(identifier)
    IN  IF ~authorized THEN Responded(op, pk, 403, FALSE, {})
        ELSE IF ~HasItem(table, identifier) THEN Responded(op, pk, 404, TRUE, {Read})
        ELSE LET artefact == get(table, identifier)
                 blocked == _check_processing_state(artefact)
             IN  IF blocked = 424
                 THEN [Responded(op, pk, 424, TRUE, {Read})
                          EXCEPT !.error_code = artefact.error_code,
                                 !.error_message = artefact.error_message]
                 ELSE Responded(op, pk, blocked, TRUE, {Read})

get_summary(identifier, authorized, download) ==
    LET guarded == Guarded("get_summary", identifier, authorized)
        artefact == get(table, identifier)
    IN  IF guarded.http # 0 THEN guarded
        ELSE IF artefact.status # SUMMARIZED \/ artefact.s3_key_summary \in {None, <<>>}
        THEN [guarded EXCEPT !.http = 404]
        ELSE IF download = "FileNotFoundError" THEN [guarded EXCEPT !.http = 404]
        ELSE [guarded EXCEPT !.http = 200]

get_transcript(identifier, authorized, download) ==
    LET guarded == Guarded("get_transcript", identifier, authorized)
        artefact == get(table, identifier)
    IN  IF guarded.http # 0 THEN guarded
        ELSE IF artefact.s3_key_transcription = None
        THEN [guarded EXCEPT !.http = 404]
        ELSE IF download = "FileNotFoundError" THEN [guarded EXCEPT !.http = 404]
        ELSE [guarded EXCEPT !.http = 200]

get_recording_url(identifier, authorized, download) ==
    LET guarded == Guarded("get_recording_url", identifier, authorized)
    IN  IF guarded.http # 0 THEN guarded
        ELSE IF download = "FileNotFoundError"
        THEN [guarded EXCEPT !.http = 404, !.effects = @ \cup {Presign}]
        ELSE [guarded EXCEPT !.http = 200, !.effects = @ \cup {Presign}]

GetSummary ==
    /\ inv = Idle
    /\ \E request \in GetRequests :
          last' = get_summary(request.identifier, request.authorized, request.download)
    /\ UNCHANGED <<table, objects, now, inv>>

GetTranscript ==
    /\ inv = Idle
    /\ \E request \in GetRequests :
          last' = get_transcript(request.identifier, request.authorized,
                                 request.download)
    /\ UNCHANGED <<table, objects, now, inv>>

GetRecordingUrl ==
    /\ inv = Idle
    /\ \E request \in GetRequests :
          last' = get_recording_url(request.identifier, request.authorized,
                                    request.download)
    /\ UNCHANGED <<table, objects, now, inv>>

\* GET /meetings: user_email names another user or nobody (the caller's own
\* meetings are listed then); page 0 is refused by Query(1, ge=1)
ListRequests ==
    {[authorized |-> a, status |-> st, page |-> pg] :
        a \in BOOLEAN, st \in {"<none>", FAILED}, pg \in {0, 1}}

DefaultPageSize == 20

\* the orders in which table.scan may return the items of the table
Scans(tbl) ==
    {scan \in [1..Cardinality(DOMAIN tbl) -> DOMAIN tbl] :
        \A i, j \in DOMAIN scan : i # j => scan[i] # scan[j]}

ListMeetings ==
    /\ inv = Idle
    /\ \E request \in ListRequests, scan \in Scans(table) :
          LET found == list_meetings(table, scan, Owner, None, request.status, None, None,
                                     request.page, DefaultPageSize)
          IN  last' =
                 IF request.page < 1
                 THEN Responded("list_meetings", None, 422, request.authorized, {})
                 ELSE IF ~request.authorized
                 THEN Responded("list_meetings", None, 403, FALSE, {})
                 ELSE [Responded("list_meetings", None, 200, TRUE,
                                 {Read} \cup (IF found.items # <<>> THEN {Presign} ELSE {}))
                          EXCEPT !.total = found.total]
    /\ UNCHANGED <<table, objects, now, inv>>

Next ==
    \/ IngestStart
    \/ IngestNext
    \/ IngestMarkFailed
    \/ StartTranscription
    \/ PollTranscription
    \/ StoreTranscription
    \/ StoreTranscriptionUpdate
    \/ GenerateSummary
    \/ GenerateSummaryRun
    \/ GenerateSummaryUpdate
    \/ CreateUploadUrl
    \/ GetSummary
    \/ GetTranscript
    \/ GetRecordingUrl
    \/ ListMeetings

Spec == Init /\ [][Next]_vars

(***************************************************************************)
(* The repository under concurrent writers.  Every write of                *)
(* MeetingArtifactRepository is one table.update_item, which DynamoDB      *)
(* applies atomically to one item, so the writers interleave write by      *)
(* write.  last is the call that has just written.                         *)
(***************************************************************************)
PlainIdentifier == IdentifierOf(Str("rec123"))

\* a meeting name with "#" in it, as create_upload_url and the key pattern
\* accept it
HashInName ==
    MeetingIdentifier(Owner, <<"Daily", "#", "2025-10-25">>, MeetingDate, Str("a"))

\* a basename with "#" in it (filename 2025-10-25#a.mp4)
HashInBasename ==
    MeetingIdentifier(Owner, MeetingName, MeetingDate, <<"2025-10-25", "#", "a">>)

RepoIdentifiers == {PlainIdentifier, HashInName, HashInBasename}

NoCall ==
    [op |-> "<none>", identifier |-> PlainIdentifier, ext |-> None, key |-> None,
     status |-> "<none>", t |-> 0, fresh |-> FALSE]

\* fresh: the call found no created_at to keep
RepoCall(op, identifier, ext, key, status, t) ==
    [op |-> op, identifier |-> identifier, ext |-> ext, key |-> key, status |-> status,
     t |-> t, fresh |-> StoredOrNew(table, compose_pk(identifier)).created_at = 0]

RepoInit ==
    /\ table = <<>>
    /\ objects = {}
    /\ now = 0
    /\ inv = Idle
    /\ last = NoCall

\* the callers of upsert_recording: create_upload_url (UPLOADED) and
\* ingest_handler (TRANSCRIBING)
RepoUpsertRecording ==
    /\ now < MaxWrites
    /\ now' = now + 1
    /\ \E identifier \in RepoIdentifiers, status \in {UPLOADED, TRANSCRIBING} :
          LET paths == MeetingS3Paths(identifier, Mp4)
          IN  /\ status = UPLOADED => identifier = PlainIdentifier
              /\ table' = upsert_recording(table, identifier, Mp4, recording_key(paths),
                                           status, now')
              /\ last' = RepoCall("upsert_recording", identifier, Mp4, recording_key(paths),
                                  status, now')
    /\ UNCHANGED <<objects, inv>>

RepoUpdateWithTranscription ==
    /\ now < MaxWrites
    /\ now' = now + 1
    /\ \E identifier \in RepoIdentifiers :
          LET paths == MeetingS3Paths(identifier, Mp4)
          IN  /\ table' = update_with_transcription(table, identifier,
                                                    transcription_key(paths), TRANSCRIBED,
                                                    None, Str("es-ES"), now')
              /\ last' = RepoCall("update_with_transcription", identifier, None,
                                  transcription_key(paths), TRANSCRIBED, now')
    /\ UNCHANGED <<objects, inv>>

RepoUpdateWithSummary ==
    /\ now < MaxWrites
    /\ now' = now + 1
    /\ \E identifier \in RepoIdentifiers :
          LET paths == MeetingS3Paths(identifier, Mp4)
          IN  /\ table' = update_with_summary(table, identifier, summary_key(paths),
                                              SUMMARIZED, now')
              /\ last' = RepoCall("update_with_summary", identifier, None,
                                  summary_key(paths), SUMMARIZED, now')
    /\ UNCHANGED <<objects, inv>>

RepoUpdateStatus ==
    /\ now < MaxWrites
    /\ now' = now + 1
    /\ \E identifier \in RepoIdentifiers :
          /\ table' = update_status(table, identifier, SUMMARIZING, now')
          /\ last' = RepoCall("update_status", identifier, None, None, SUMMARIZING, now')
    /\ UNCHANGED <<objects, inv>>

RepoMarkFailed ==
    /\ now < MaxWrites
    /\ now' = now + 1
    /\ \E identifier \in RepoIdentifiers :
          /\ table' = mark_failed(table, identifier, Str("LLM_ERROR"),
                                  Message("timeout", 7), now')
          /\ last' = RepoCall("mark_failed", identifier, None, None, FAILED, now')
    /\ UNCHANGED <<objects, inv>>

RepoNext ==
    \/ RepoUpsertRecording
    \/ RepoUpdateWithTranscription
    \/ RepoUpdateWithSummary
    \/ RepoUpdateStatus
    \/ RepoMarkFailed

SpecRepository == RepoInit /\ [][RepoNext]_vars

(***************************************************************************)
(* The helpers of paths.py and schemas.py and the query of repository.py,  *)
(* each applied to one input.  inv is the call, last its result.           *)
(***************************************************************************)
\* filenames: every text of at most MaxNameLen tokens
FilenameTokens == {"rec", "MP4", ".", "/", "\\", " "}

FilenameInputs == UNION {[1..n -> FilenameTokens] : n \in 0..MaxNameLen}

\* keys: segments joined by "/", some of them not of the shape the pattern wants
KeyPrefixes == {Str("grabaciones"), Str("recordings")}

KeyOwners == {Owner, <<>>}

KeyFolders ==
    {<<"Daily", "_", "2025-10-25">>, <<"Daily">>, <<"_">>,
     <<"Weekly", "_", "Sync", "_", "2025-10-25">>, <<"Daily", "%5F", "2025-10-25">>,
     <<"Q", "+", "A", "_", "2025-10-25">>}

KeyFiles ==
    {<<"rec123", ".", "mp4">>, <<"rec123">>, <<"rec123", ".">>, <<".", "mp4">>,
     <<"my", ".", "file", ".", "mp4">>, <<"rec123", ".", "mp4", "/", "part">>}

KeyInputs ==
    {a \o <<"/">> \o b \o <<"/">> \o c \o <<"/">> \o d :
        a \in KeyPrefixes, b \in KeyOwners, c \in KeyFolders, d \in KeyFiles}
        \cup {a \o <<"/">> \o c \o <<"/">> \o d :
                a \in KeyPrefixes, c \in KeyFolders, d \in KeyFiles}

\* identifiers and extensions that create_upload_url accepts
UploadNames == {MeetingName, <<"Weekly", "_", "Sync">>, <<"Q", "+", "A">>}

UploadBasenames ==
    {Str("rec123"), <<"my", ".", "file">>, <<"a", "+", "b">>, <<"save", "%25">>}

UploadExts == {Mp4, <<".", "wav">>}

UploadIdentifiers ==
    {MeetingIdentifier(Owner, n, MeetingDate, b) : n \in UploadNames, b \in UploadBasenames}

\* payloads: the valid payload with at most two fields changed
SummaryPayloads ==
    {ObjectShape([[ValidFields EXCEPT ![k1] = v1] EXCEPT ![k2] = v2]) :
        k1 \in DOMAIN ValidFields, v1 \in ValueKinds,
        k2 \in DOMAIN ValidFields, v2 \in ValueKinds}

\* the items a table may hold: two with the same date and basename, one of an
\* earlier date, and one written by mark_failed alone
ListPool ==
    LET item(identifier, status) ==
            [EmptyItem EXCEPT !.user_email = identifier.user_email,
                              !.meeting_name = identifier.meeting_name,
                              !.meeting_date = identifier.meeting_date,
                              !.basename = identifier.basename,
                              !.ext = Mp4, !.status = status, !.created_at = 1,
                              !.updated_at = 1]
        first == MeetingIdentifier(Owner, MeetingName, Str("2025-10-25"), Str("a"))
        second == MeetingIdentifier(Str("bob@x"), MeetingName, Str("2025-10-25"), Str("a"))
        third == MeetingIdentifier(Owner, MeetingName, Str("2025-10-24"), Str("b"))
        fourth == MeetingIdentifier(Owner, MeetingName, Str("2025-10-26"), Str("missing"))
    IN  (compose_pk(first) :> item(first, SUMMARIZED))
            @@ (compose_pk(second) :> item(second, FAILED))
            @@ (compose_pk(third) :> item(third, FAILED))
            @@ (compose_pk(fourth) :> [EmptyItem EXCEPT !.status = FAILED, !.updated_at = 1])

ListScans ==
    UNION {{scan \in [1..n -> DOMAIN ListPool] :
                \A i, j \in 1..n : i # j => scan[i] # scan[j]} :
           n \in 0..Cardinality(DOMAIN ListPool)}

ListFilters ==
    [user_email : {None, Owner}, meeting_name : {None, <<>>, MeetingName},
     status : {"<none>", FAILED}, from_date : {None, Str("2025-10-25")},
     to_date : {None, Str("2025-10-25")}, page : 1..MaxPage, page_size : 1..MaxPageSize]

FunctionCall(op, arg) == [op |-> op, pc |-> "call", arg |-> arg]

FunctionCalls ==
    {FunctionCall("split_filename", f) : f \in FilenameInputs}
        \cup {FunctionCall("parse_from_recording_key", k) : k \in KeyInputs}
        \cup {FunctionCall("recording_key", MeetingS3Paths(i, e)) :
                i \in UploadIdentifiers, e \in UploadExts}
        \cup {FunctionCall("validate_summary_payload", pl) : pl \in SummaryPayloads}

NoResult == [op |-> "<none>", result |-> <<>>]

FunctionInit ==
    /\ objects = {}
    /\ now = 0
    /\ last = NoResult
    /\ \/ inv \in FunctionCalls /\ table = <<>>
       \/ \E scan \in ListScans, filters \in ListFilters :
             /\ inv = FunctionCall("list_meetings", [scan |-> scan, filters |-> filters])
             /\ table = [pk \in {scan[i] : i \in DOMAIN scan} |-> ListPool[pk]]

Applied(result) ==
    /\ inv.pc = "call"
    /\ inv' = [inv EXCEPT !.pc = "done"]
    /\ last' = [op |-> inv.op, result |-> result]
    /\ UNCHANGED <<table, objects, now>>

CallSplitFilename ==
    /\ inv.op = "split_filename"
    /\ Applied(split_filename(inv.arg))

CallParseRecordingKey ==
    /\ inv.op = "parse_from_recording_key"
    /\ Applied(parse_from_recording_key(inv.arg))

\* the key that create_upload_url hands out, parsed as ingest_handler parses it
CallRecordingKeyParse ==
    /\ inv.op = "recording_key"
    /\ Applied(parse_from_recording_key(recording_key(inv.arg)))

CallValidateSummaryPayload ==
    /\ inv.op = "validate_summary_payload"
    /\ Applied(validate_summary_payload(inv.arg))

CallListMeetings ==
    /\ inv.op = "list_meetings"
    /\ LET f == inv.arg.filters
       IN  Applied(list_meetings(table, inv.arg.scan, f.user_email, f.meeting_name, f.status,
                                 f.from_date, f.to_date, f.page, f.page_size))

FunctionNext ==
    \/ CallSplitFilename
    \/ CallParseRecordingKey
    \/ CallRecordingKeyParse
    \/ CallValidateSummaryPayload
    \/ CallListMeetings

SpecFunctions == FunctionInit /\ [][FunctionNext]_vars

(***************************************************************************)
(* Uploads and their notifications.  Clients ask for upload URLs under     *)
(* names of their choice; the storage service notifies ingest of an object *)
(* created at a key the endpoint returned, or at a key a client wrote      *)
(* without the endpoint.                                                   *)
(***************************************************************************)
IntakeRequests ==
    {UploadRequest(TRUE, n, b \o Mp4, "ok") : n \in IntakeNames, b \in IntakeBasenames}

IntakeUpload ==
    /\ inv = Idle
    /\ now < MaxWrites
    /\ \E request \in IntakeRequests : PostUploadUrl(request)

\* the notification carries one record
IntakeNotify ==
    /\ inv = Idle
    /\ now < MaxWrites
    /\ \E key \in {table[pk].s3_key_recording : pk \in DOMAIN table} \cup DirectKeys,
          arn \in BOOLEAN :
          IngestLoop(<<key>>, arn)

IntakeNext ==
    \/ IntakeUpload
    \/ IntakeNotify
    \/ IngestMarkFailed

SpecIntake == Init /\ [][IntakeNext]_vars

(***************************************************************************)
(* One pipeline execution.  Ingest starts the execution with the recording  *)
(* key it derived; the scheduler hands that key to every stage, invokes the *)
(* next stage when a stage has returned, invokes poll again while it        *)
(* reports IN_PROGRESS, and ends the execution when a stage raises or poll  *)
(* reports FAILED.  last is the result of the stage that ran last.          *)
(***************************************************************************)
PipelineIngest ==
    /\ inv = Idle
    /\ last = NoLast
    /\ \E key \in PipelineEventKeys : IngestLoop(<<key>>, TRUE)

PipelineStart ==
    /\ inv = Idle
    /\ last.op = "ingest"
    /\ last.outcome = "return"
    /\ start_transcription_handler(last.handed)

PipelinePoll ==
    /\ inv = Idle
    /\ last.op \in {"start_transcription", "poll_transcription"}
    /\ last.outcome = "return"
    /\ last.status = "IN_PROGRESS"
    /\ poll_transcription_handler(last.key)

PipelineStore ==
    /\ inv = Idle
    /\ last.op = "poll_transcription"
    /\ last.outcome = "return"
    /\ last.status = "COMPLETED"
    /\ store_transcription_handler(last.key, {last.uri})

PipelineSummary ==
    /\ inv = Idle
    /\ last.op = "store_transcription"
    /\ last.outcome = "return"
    /\ generate_summary_handler(last.key)

PipelineNext ==
    \/ PipelineIngest
    \/ IngestMarkFailed
    \/ PipelineStart
    \/ PipelinePoll
    \/ PipelineStore
    \/ StoreTranscriptionUpdate
    \/ PipelineSummary
    \/ GenerateSummaryRun
    \/ GenerateSummaryUpdate

SpecPipeline == Init /\ [][PipelineNext]_vars

\* the scheduler and the stages keep going: a step of the execution that can
\* be taken is taken, and the transcription job does not stay in progress
\* for ever
FairSpecPipeline == Init /\ [][PipelineNext]_vars /\ WF_vars(PipelineNext)

(***************************************************************************)
(* Duplicate delivery of one notification.  Each delivery is an invocation *)
(* of ingest_handler for the same key; the invocations run at the same     *)
(* time and interleave at their calls of the repository and of             *)
(* start_execution.  inv maps each invocation to the place it has reached, *)
(* last.key is the key of the notification and last.op the last write.     *)
(***************************************************************************)
Deliveries == 1..MaxDeliveries

DuplicateInit ==
    /\ table = <<>>
    /\ objects = {}
    /\ now = 0
    /\ inv = [i \in Deliveries |-> "upsert_recording"]
    /\ \E key \in PipelineEventKeys : last = [NoLast EXCEPT !.key = key]

\* repo.upsert_recording(..., status=TRANSCRIBING)
DuplicateUpsert ==
    \E i \in Deliveries :
        /\ inv[i] = "upsert_recording"
        /\ now' = now + 1
        /\ LET paths == Parse(last.key)
           IN  table' = upsert_recording(table, paths.identifier, paths.ext,
                                         recording_key(paths), TRANSCRIBING, now')
        /\ inv' = [inv EXCEPT ![i] = "start_execution"]
        /\ last' = [last EXCEPT !.op = "upsert_recording"]
        /\ UNCHANGED objects

\* step_client.start_execution under a name with a random suffix
DuplicateStartExecution ==
    \E i \in Deliveries, outcome \in CallOutcomes :
        /\ inv[i] = "start_execution"
        /\ inv' = [inv EXCEPT ![i] = CASE outcome = "ok" -> "returned"
                                       [] outcome = "ClientError" -> "mark_failed"
                                       [] OTHER -> "raised"]
        /\ UNCHANGED <<table, objects, now, last>>

\* except ClientError: _mark_failed, raise
DuplicateMarkFailed ==
    \E i \in Deliveries :
        /\ inv[i] = "mark_failed"
        /\ now' = now + 1
        /\ table' = MarkFailed(table, Parse(last.key), "PIPELINE_START_ERROR",
                               Message("ClientError", 80), now')
        /\ inv' = [inv EXCEPT ![i] = "raised_client_error"]
        /\ last' = [last EXCEPT !.op = "mark_failed"]
        /\ UNCHANGED objects

DuplicateNext ==
    \/ DuplicateUpsert
    \/ DuplicateStartExecution
    \/ DuplicateMarkFailed

SpecDuplicate == DuplicateInit /\ [][DuplicateNext]_vars

(***************************************************************************)
(* Properties.                                                             *)
(***************************************************************************)
\* no handler is in progress: last is the outcome of the handler or request
\* that has just returned, and the table is as it left it
HandlerReturned == inv = Idle

StatusOrder == <<UPLOADED, TRANSCRIBING, TRANSCRIBED, SUMMARIZING, SUMMARIZED>>

IsNextStatus(from, to) ==
    \E i \in 1..(Len(StatusOrder) - 1) : StatusOrder[i] = from /\ StatusOrder[i + 1] = to

\* the handler or endpoint that takes the step
StepOp ==
    IF inv.op # "idle" THEN inv.op
    ELSE IF inv'.op # "idle" THEN inv'.op
    ELSE last'.op

\* C1: in every reachable state each persisted artifact has a transcript key
\* only in status TRANSCRIBED, SUMMARIZING or SUMMARIZED and a summary key
\* only in status SUMMARIZED.
C1_KeysFollowStatus ==
    \A pk \in DOMAIN table :
        /\ table[pk].s3_key_transcription # None
              => table[pk].status \in {TRANSCRIBED, SUMMARIZING, SUMMARIZED}
        /\ table[pk].s3_key_summary # None => table[pk].status = SUMMARIZED

\* C2: every change of an artifact's persisted status is a step to the next
\* status in the order UPLOADED, TRANSCRIBING, TRANSCRIBED, SUMMARIZING,
\* SUMMARIZED, or a move from a non-terminal status to FAILED.
C2_StatusStepsForward ==
    [][\A pk \in DOMAIN table \cap DOMAIN table' :
          table'[pk].status # table[pk].status
              => \/ IsNextStatus(table[pk].status, table'[pk].status)
                 \/ /\ table[pk].status \notin {SUMMARIZED, FAILED}
                    /\ table'[pk].status = FAILED]_vars

\* C3: once an artifact's persisted status is FAILED or SUMMARIZED, no later
\* request, event or stage invocation changes it.
C3_TerminalAbsorbing ==
    [][\A pk \in DOMAIN table :
          table[pk].status \in {FAILED, SUMMARIZED}
              => pk \in DOMAIN table' /\ table'[pk].status = table[pk].status]_vars

ExternalCallFailures ==
    {"pipeline_start", "transcribe_submit", "transcribe_status", "storage_download",
     "storage_upload", "invoke_error"}

\* C4: when a stage handler returns control after one of its external calls
\* failed, it has raised and the artifact is FAILED with an error code.
C4_ExternalFailureRecorded ==
    (HandlerReturned /\ last.cause \in ExternalCallFailures)
        => /\ last.outcome = "raise"
           /\ last.pk \in DOMAIN table
           /\ table[last.pk].status = FAILED
           /\ table[last.pk].error_code # None

\* the summary-payload schema of the specification: the eight keys hold values
\* of the required types, titulo has at most 120 characters, temas_tratados and
\* tags are not empty
SchemaOk(payload) ==
    /\ payload.shape = "object"
    /\ \A key \in DOMAIN payload.fields :
          payload.fields[key] \in
              (IF key \in {"titulo", "resumen_general"} THEN {"str", "str121"}
               ELSE {"list", "list_empty"})
    /\ payload.fields["titulo"] # "str121"
    /\ payload.fields["temas_tratados"] # "list_empty"
    /\ payload.fields["tags"] # "list_empty"

\* C5: when generate-summary returns after LLM output that decodes but fails
\* the summary-payload schema, the artifact is FAILED with LLM_INVALID_OUTPUT;
\* after any other failure of the LLM invocation it is FAILED with LLM_ERROR;
\* in both cases the handler has raised.
C5_SummaryFailureCodes ==
    (HandlerReturned /\ last.op = "generate_summary")
        => /\ (last.cause = "llm_output" /\ ~SchemaOk(last.payload))
                 => /\ last.outcome = "raise"
                    /\ table[last.pk].status = FAILED
                    /\ table[last.pk].error_code = Str("LLM_INVALID_OUTPUT")
           /\ last.cause \in LlmFailures
                 => /\ last.outcome = "raise"
                    /\ table[last.pk].status = FAILED
                    /\ table[last.pk].error_code = Str("LLM_ERROR")

ExamplePk == <<"alice@x", ".", "com", "#", "Daily", "#", "2025-10-25", "#", "rec123">>

ExampleTail == <<"/", "alice@x", ".", "com", "/", "Daily", "_", "2025-10-25", "/", "rec123">>

CodeExampleKey == <<"grabaciones">> \o ExampleTail \o <<".", "mp4">>

C7_ErrorFieldsOnlyWhenFailed ==
    \A pk \in DOMAIN table :
        (table[pk].error_code # None \/ table[pk].error_message # NoMessage)
            => table[pk].status = FAILED

\* C8: update_with_transcription for an identifier without a persisted record
\* fails and leaves the repository unchanged.
C8_TranscriptionNeedsRecord ==
    [][(/\ inv.op = "store_transcription"
        /\ inv.pc = "update"
        /\ compose_pk(Parse(inv.key).identifier) \notin DOMAIN table)
          => (table' = table /\ last'.outcome = "raise")]_vars

\* C9: a record comes into existence only through ingest or an upload-URL
\* request, and no step removes a record.
C9_RecordsCreatedByIngestOrUpload ==
    [][/\ DOMAIN table \subseteq DOMAIN table'
       /\ DOMAIN table' # DOMAIN table => StepOp \in {"ingest", "create_upload_url"}]_vars

\* C10: for an authorized caller the summary and transcript endpoints answer
\* 404 when no artifact is stored, else 409 when the status is UPLOADED,
\* TRANSCRIBING or SUMMARIZING, else 424 with the stored error code and message
\* when it is FAILED, else 404 when the relevant key is absent.
C10_ResponseOrder ==
    (/\ HandlerReturned
     /\ last.op \in {"get_summary", "get_transcript"}
     /\ last.authorized)
        => IF last.pk \notin DOMAIN table THEN last.http = 404
           ELSE LET artefact == table[last.pk]
                    relevant == IF last.op = "get_summary" THEN artefact.s3_key_summary
                                ELSE artefact.s3_key_transcription
                IN  IF artefact.status \in {UPLOADED, TRANSCRIBING, SUMMARIZING}
                    THEN last.http = 409
                    ELSE IF artefact.status = FAILED
                    THEN /\ last.http = 424
                         /\ last.error_code = artefact.error_code
                         /\ last.error_message = artefact.error_message
                    ELSE relevant = None => last.http = 404

\* an authorized summary request for a TRANSCRIBING artifact without a summary
\* key has been answered 409
C10_Witness ==
    /\ HandlerReturned
    /\ last.op = "get_summary"
    /\ last.authorized
    /\ last.http = 409
    /\ last.pk \in DOMAIN table
    /\ table[last.pk].status = TRANSCRIBING
    /\ table[last.pk].s3_key_summary = None

\* the endpoints that serve one artefact
ArtefactEndpoints == {"get_summary", "get_transcript", "get_recording_url"}

\* an authorized request for a stored artefact has been answered
ArtefactAnswered ==
    /\ HandlerReturned
    /\ last.op \in ArtefactEndpoints
    /\ last.authorized
    /\ last.pk \in DOMAIN table

\* C11 (as stated): a summary, transcript or recording-url request for an
\* artefact in status UPLOADED, TRANSCRIBING, TRANSCRIBED or SUMMARIZING is
\* answered with 409.
C11_NonTerminalAnswered409 ==
    (/\ ArtefactAnswered
     /\ table[last.pk].status \in {UPLOADED, TRANSCRIBING, TRANSCRIBED, SUMMARIZING})
        => last.http = 409

\* C11 (amended): a summary, transcript or recording-url request for an
\* artefact in status UPLOADED, TRANSCRIBING or SUMMARIZING is answered with
\* 409; a request for a TRANSCRIBED artefact is not.
C11_ProcessingAnswered409 ==
    ArtefactAnswered =>
        /\ table[last.pk].status \in {UPLOADED, TRANSCRIBING, SUMMARIZING} => last.http = 409
        /\ table[last.pk].status = TRANSCRIBED => last.http # 409

\* a recording-url request for an UPLOADED artefact has been answered 409
C11_Witness ==
    /\ ArtefactAnswered
    /\ last.op = "get_recording_url"
    /\ table[last.pk].status = UPLOADED
    /\ last.http = 409

\* C12 (as stated): every request to a meetings endpoint whose authenticated
\* identity differs from the owner it names is answered with 403, and the
\* endpoint has neither read nor written the repository nor issued a
\* presigned URL for it.
C12_MismatchAnswered403 ==
    (HandlerReturned /\ last.outcome = "response" /\ ~last.authorized)
        => (last.http = 403 /\ last.effects = {})

\* C12 (amended): such a request is answered with 403, or with 422 when it
\* fails the validation of the request that runs before the endpoint; in both
\* cases nothing has been read or written in the repository and no presigned
\* URL has been issued.
C12_MismatchRefusedUntouched ==
    (HandlerReturned /\ last.outcome = "response" /\ ~last.authorized)
        => (last.http \in {403, 422} /\ last.effects = {})

\* a recording-url request of another user for a stored artefact has been
\* answered 403
C12_Witness ==
    /\ HandlerReturned
    /\ last.op = "get_recording_url"
    /\ ~last.authorized
    /\ last.http = 403
    /\ last.pk \in DOMAIN table

\* C13: an upload-URL request answered 400 (filename refused by
\* split_filename, or extension outside the allow-list) leaves the table as it
\* was.
C13_RejectedUploadLeavesTable ==
    [][(StepOp = "create_upload_url" /\ last'.http = 400) => table' = table]_vars

\* an upload-URL request has been answered 400 while a record is stored
C13_Witness ==
    /\ HandlerReturned
    /\ last.op = "create_upload_url"
    /\ last.http = 400
    /\ DOMAIN table # {}

\* the step is a call of upsert_recording with the arguments of the call before it
SecondIdenticalUpsert ==
    /\ last.op = "upsert_recording"
    /\ last'.op = "upsert_recording"
    /\ last'.t # last.t
    /\ last'.identifier = last.identifier
    /\ last'.ext = last.ext
    /\ last'.key = last.key
    /\ last'.status = last.status

\* C14: of two consecutive calls of upsert_recording with identical arguments
\* the second adds no record, keeps created_at as the first call left it (the
\* time of the first call when that call created it), sets updated_at to its
\* own time, and leaves every other field as it was after the first call.
C14_SecondUpsertKeepsCreatedAt ==
    [][SecondIdenticalUpsert =>
          LET pk == compose_pk(last.identifier)
          IN  /\ DOMAIN table' = DOMAIN table
              /\ table'[pk].created_at = table[pk].created_at
              /\ last.fresh => table'[pk].created_at = last.t
              /\ table'[pk].updated_at = last'.t
              /\ table[pk].updated_at = last.t
              /\ [table'[pk] EXCEPT !.updated_at = 0] = [table[pk] EXCEPT !.updated_at = 0]
              /\ \A other \in DOMAIN table \ {pk} : table'[other] = table[other]]_vars

\* upsert_recording has been called twice in a row with identical arguments
\* for a record that the first call created
C14_Witness ==
    /\ last.op = "upsert_recording"
    /\ ~last.fresh
    /\ compose_pk(last.identifier) \in DOMAIN table
    /\ table[compose_pk(last.identifier)].created_at = last.t - 1
    /\ table[compose_pk(last.identifier)].updated_at = last.t
    /\ table[compose_pk(last.identifier)].status = last.status

\* C20: a repository write for identifier A leaves the record of every other
\* identifier B as it was (stored or not), whatever the interleaving of the
\* writers, and A and B have different primary keys.
C20_WritesAreIsolated ==
    [][last'.t # last.t =>
          \A B \in RepoIdentifiers \ {last'.identifier} :
              /\ compose_pk(B) # compose_pk(last'.identifier)
              /\ HasItem(table', B) = HasItem(table, B)
              /\ HasItem(table, B) => get(table', B) = get(table, B)]_vars

\* the call of op has been applied
Done(op) == inv.op = op /\ inv.pc = "done" /\ last.op = op

\* C15: for every identifier and extension that the upload path accepts,
\* parsing the recording key derived from them returns the same identifier and
\* the same extension.
C15_RecordingKeyRoundTrip ==
    Done("recording_key") =>
        /\ ~last.result.invalid
        /\ last.result.identifier = inv.arg.identifier
        /\ last.result.ext = inv.arg.ext

RECURSIVE CountOf(_, _)
CountOf(text, char) ==
    IF text = <<>> THEN 0
    ELSE (IF Head(text) = char THEN 1 ELSE 0) + CountOf(Tail(text), char)

\* the third of the segments of a key that "/" separates
FolderSegment(key) ==
    LET p1 == IndexFrom(key, 1, {"/"})
        p2 == IndexFrom(key, p1 + 1, {"/"})
        p3 == IndexFrom(key, p2 + 1, {"/"})
    IN  Slice(key, p2 + 1, p3 - 1)

\* C16: parse_from_recording_key fails for every key that does not consist of
\* four segments, and for every key whose folder segment does not hold exactly
\* one "_".
C16_MalformedKeyRejected ==
    (/\ Done("parse_from_recording_key")
     /\ \/ CountOf(inv.arg, "/") # 3
        \/ CountOf(FolderSegment(inv.arg), "_") # 1)
        => last.result.invalid

\* the filenames that split_filename is said to refuse
RefusedFilename(filename) ==
    \/ filename = <<>>
    \/ Contains(filename, {"/", "\\"})
    \/ Head(filename) = "."
    \/ ~Contains(filename, {"."})
    \/ filename[Len(filename)] = "."
    \/ filename \in {<<".">>, <<".", ".">>}

\* C17: split_filename fails for a filename that is empty, contains "/" or
\* "\", starts with ".", has no extension, has an empty basename or an empty
\* extension (ends in a bare "."), or is "." or ".."; for every other filename
\* it returns a basename and an extension that concatenate to the filename.
C17_SplitFilename ==
    Done("split_filename") =>
        IF RefusedFilename(inv.arg) THEN last.result.invalid
        ELSE /\ ~last.result.invalid
             /\ last.result.basename \o last.result.ext = inv.arg

\* the kinds of value the schema of the summary asks of a key
RequiredKinds(key) ==
    IF key \in {"titulo", "resumen_general"} THEN {"str", "str121"}
    ELSE {"list", "list_empty"}

AcceptableFields(fields) ==
    /\ \A key \in DOMAIN fields : fields[key] \in RequiredKinds(key)
    /\ fields["titulo"] # "str121"
    /\ fields["temas_tratados"] # "list_empty"
    /\ fields["tags"] # "list_empty"

MissingKey(fields) == \E key \in DOMAIN fields : fields[key] = "absent"

\* every required key before the first missing one holds a value of its type
WellTypedUpToMissing(fields) ==
    \E i \in 1..Len(required_keys) :
        /\ fields[required_keys[i]] = "absent"
        /\ \A j \in 1..(i - 1) : fields[required_keys[j]] \in RequiredKinds(required_keys[j])

\* C18 (as stated): validate_summary_payload accepts exactly the payloads with
\* all keys of the required types, a titulo of at most 120 characters and
\* non-empty temas_tratados and tags; a payload missing a key is rejected with
\* "Missing key" whatever its other fields hold; a titulo of 121 characters is
\* rejected with "exceeds".
C18_MissingKeyAlwaysNamed ==
    Done("validate_summary_payload") =>
        LET fields == inv.arg.fields
        IN  /\ last.result.ok <=> AcceptableFields(fields)
            /\ MissingKey(fields) =>
                  /\ last.result.exc = "SummaryPayloadValidationError"
                  /\ last.result.msg = "Missing key"
            /\ AcceptableFields([fields EXCEPT !["titulo"] = "str"])
                  /\ fields["titulo"] = "str121" => last.result.msg = "exceeds"

\* C18 (amended): as stated, except that a payload missing a key is rejected
\* with SummaryPayloadValidationError, and with "Missing key" when every
\* required key before the first missing one holds a value of its type.
C18_ValidatorAcceptsExactly ==
    Done("validate_summary_payload") =>
        LET fields == inv.arg.fields
        IN  /\ last.result.ok <=> AcceptableFields(fields)
            /\ ~last.result.ok => last.result.exc = "SummaryPayloadValidationError"
            /\ WellTypedUpToMissing(fields) => last.result.msg = "Missing key"
            /\ (MissingKey(fields) /\ ~WellTypedUpToMissing(fields))
                  => last.result.msg = "must be of type"
            /\ AcceptableFields([fields EXCEPT !["titulo"] = "str"])
                  /\ fields["titulo"] = "str121" => last.result.msg = "exceeds"

\* a payload without tags and with an empty temas_tratados has been rejected
\* for the missing key
C18_Witness ==
    /\ Done("validate_summary_payload")
    /\ inv.arg.fields["tags"] = "absent"
    /\ inv.arg.fields["temas_tratados"] = "list_empty"
    /\ last.result.msg = "Missing key"
    /\ last.result.key = "tags"

\* the items of the table that match the filters; applies(filter) tells
\* whether a filter is given
Matching(applies(_)) ==
    LET f == inv.arg.filters
    IN  {pk \in DOMAIN table :
            /\ applies(f.user_email) => table[pk].user_email = f.user_email
            /\ applies(f.meeting_name) => table[pk].meeting_name = f.meeting_name
            /\ f.status # "<none>" => table[pk].status = f.status
            /\ applies(f.from_date) =>
                  /\ table[pk].meeting_date # None
                  /\ Rank(f.from_date) <= Rank(table[pk].meeting_date)
            /\ applies(f.to_date) =>
                  /\ table[pk].meeting_date # None
                  /\ Rank(table[pk].meeting_date) <= Rank(f.to_date)}

\* page number page of the call, everything else as in the call
PageOfCall(page) ==
    LET f == inv.arg.filters
    IN  list_meetings(table, inv.arg.scan, f.user_email, f.meeting_name, f.status,
                      f.from_date, f.to_date, page, f.page_size)

RECURSIVE PagesUpTo(_)
PagesUpTo(page) == IF page < 1 THEN <<>> ELSE PagesUpTo(page - 1) \o PageOfCall(page).items

\* total counts the matching items; the pages, one after the other, hold every
\* matching item once, in descending order of (meeting_date, basename), each
\* page full but the last; the result is the page asked for
ListedCorrectly(matching) ==
    LET f == inv.arg.filters
        count == Cardinality(matching)
        pages == (count + f.page_size - 1) \div f.page_size
        all == PagesUpTo(pages)
        expected == IF f.page * f.page_size <= count THEN f.page_size
                    ELSE IF (f.page - 1) * f.page_size < count
                    THEN count - (f.page - 1) * f.page_size
                    ELSE 0
    IN  /\ last.result.total = count
        /\ Len(last.result.items) = expected
        /\ last.result.items = SubSeq(all, (f.page - 1) * f.page_size + 1,
                                      (f.page - 1) * f.page_size + expected)
        /\ Len(all) = count
        /\ {all[i] : i \in 1..Len(all)} = matching
        /\ \A i, j \in 1..Len(all) : i < j => ~KeyLess(table[all[i]], table[all[j]])
        /\ PageOfCall(pages + 1).items = <<>>

\* C19 (as stated): list_meetings returns the count of the items matching
\* every filter that is not None and the page asked for of those items sorted
\* by (meeting_date, basename) descending; the pages are disjoint and together
\* hold every matching item once.
C19_ListMeetingsAnyFilter ==
    Done("list_meetings") => ListedCorrectly(Matching(LAMBDA filter : filter # None))

\* C19 (amended): the same for the filters that are neither None nor empty; an
\* empty filter is not applied.
C19_ListMeetingsNonEmptyFilters ==
    Done("list_meetings") =>
        ListedCorrectly(Matching(LAMBDA filter : filter # None /\ filter # <<>>))

\* the second page of one item has been listed from a table of four items of
\* which two match the owner
C19_Witness ==
    /\ Done("list_meetings")
    /\ Cardinality(DOMAIN table) = 4
    /\ inv.arg.filters.user_email = Owner
    /\ inv.arg.filters.page = 2
    /\ inv.arg.filters.page_size = 1
    /\ last.result.total = 2
    /\ Len(last.result.items) = 1

\* the record a poll invocation leaves when it has marked the artifact failed
PollMarked(error_code, error_message) ==
    /\ last'.pk \in DOMAIN table'
    /\ table'[last'.pk].status = FAILED
    /\ table'[last'.pk].error_code = Str(error_code)
    /\ table'[last'.pk].error_message = error_message

\* what a poll invocation does when the job is in progress or COMPLETED
PollHandsOff ==
    /\ (last'.outcome = "return" /\ last'.status \in {"IN_PROGRESS", "COMPLETED"})
          => table' = table
    /\ (last'.outcome = "return" /\ last'.status = "COMPLETED")
          => last'.language \in LanguageCodes /\ last'.uri \in {"s3", "<none>"}

\* C22 as stated: a poll-transcription invocation changes the table only when
\* it reports the job FAILED, and then the record is FAILED with
\* TRANSCRIBE_FAILED and the job's failure reason as its message; an invocation
\* that reports IN_PROGRESS or COMPLETED leaves the table as it was, and a
\* COMPLETED result carries the transcript URI and the language.
C22_PollWritesOnlyOnFailedJob ==
    [][StepOp = "poll_transcription"
          => /\ table' # table
                   => /\ last'.outcome = "return" /\ last'.status = "FAILED"
                      /\ PollMarked("TRANSCRIBE_FAILED", last'.error_message)
             /\ PollHandsOff]_vars

\* C22: a poll-transcription invocation changes the table only when it reports
\* the job FAILED (the record is then FAILED with TRANSCRIBE_FAILED and the
\* first 500 characters of the job's failure reason) or when the status call
\* raises ClientError (the record is then FAILED with TRANSCRIBE_STATUS_ERROR
\* and the handler raises); an invocation that reports IN_PROGRESS or
\* COMPLETED leaves the table as it was, and a COMPLETED result carries the
\* transcript URI and the language.
C22_PollWritesOnlyOnFailure ==
    [][StepOp = "poll_transcription"
          => /\ table' # table
                   => \/ /\ last'.outcome = "return" /\ last'.status = "FAILED"
                         /\ PollMarked("TRANSCRIBE_FAILED", Truncate(last'.error_message))
                      \/ /\ last'.outcome = "raise" /\ last'.exc = "ClientError"
                         /\ last'.cause = "transcribe_status"
                         /\ PollMarked("TRANSCRIBE_STATUS_ERROR", Message("ClientError", 80))
             /\ (last'.outcome = "return" /\ last'.status = "FAILED") => table' # table
             /\ PollHandsOff]_vars

\* a poll invocation has reported a job that failed with a reason longer than
\* the stored message may be, and the record holds the shortened reason
C22_Witness ==
    /\ last.op = "poll_transcription" /\ last.outcome = "return"
    /\ last.status = "FAILED"
    /\ last.error_message.len > MaxMessageLen
    /\ last.pk \in DOMAIN table
    /\ table[last.pk].error_code = Str("TRANSCRIBE_FAILED")
    /\ table[last.pk].error_message = Truncate(last.error_message)

\* the ingest handler ends, by returning or raising, at a record with a key
IngestEnded == StepOp = "ingest" /\ inv' = Idle /\ last'.key # <<>>

\* the handler ends at a record whose extension the allow-list does not hold:
\* it raises ValueError having written nothing and started nothing
IngestRefusedExtension ==
    /\ last'.outcome = "raise"
    /\ last'.exc = "ValueError"
    /\ last'.cause = "extension"
    /\ last'.effects = {}
    /\ table' = table

\* the record of the artifact holds the extension and the derived key
IngestRecorded(paths, status) ==
    LET pk == compose_pk(paths.identifier)
    IN  /\ pk \in DOMAIN table'
        /\ table'[pk].status = status
        /\ table'[pk].ext = paths.ext
        /\ table'[pk].s3_key_recording = recording_key(paths)

\* C23 as stated: ingest of a record whose extension is not in the allow-list
\* raises a validation error, changes no record and starts no execution;
\* ingest of a record with an allowed extension leaves its artifact
\* TRANSCRIBING with the derived recording key.
C23_IngestByExtension ==
    [][IngestEnded
          => LET paths == Parse(last'.key)
             IN  ~paths.invalid
                    => IF paths.ext \notin ALLOW_EXTS
                       THEN IngestRefusedExtension
                       ELSE IngestRecorded(paths, TRANSCRIBING)]_vars

\* C23: ingest of a record whose extension is not in the allow-list raises a
\* validation error, changes no record and starts no execution; ingest of a
\* record with an allowed extension leaves its artifact TRANSCRIBING with the
\* derived recording key, unless start_execution raises ClientError for it,
\* and then FAILED with PIPELINE_START_ERROR and the derived recording key.
C23_IngestByExtensionOrStartFailure ==
    [][IngestEnded
          => LET paths == Parse(last'.key)
             IN  ~paths.invalid
                    => IF paths.ext \notin ALLOW_EXTS
                       THEN IngestRefusedExtension
                       ELSE IF last'.exc = "ClientError"
                       THEN /\ IngestRecorded(paths, FAILED)
                            /\ table'[compose_pk(paths.identifier)].error_code
                                  = Str("PIPELINE_START_ERROR")
                       ELSE IngestRecorded(paths, TRANSCRIBING)]_vars

\* an event of two records has been ingested up to its second record, which
\* was refused for its extension after the first had been upserted
C23_Witness ==
    /\ HandlerReturned
    /\ last.op = "ingest" /\ last.cause = "extension"
    /\ last.key = DisallowedKey
    /\ \E pk \in DOMAIN table :
          table[pk].status = TRANSCRIBING /\ table[pk].ext = Mp4

\* the ways store-transcription fails to locate, download or parse the raw
\* output of the job
RawOutputFailures == {"unsupported_uri", "storage_download", "raw_output"}

\* C24: when store-transcription ends for a completed job without a
\* transcript URI the artifact is FAILED with TRANSCRIBE_NO_OUTPUT, and when it
\* ends because the raw output could not be located, downloaded or parsed the
\* artifact is FAILED with TRANSCRIBE_DOWNLOAD_ERROR; in both cases the handler
\* has raised.
C24_StoreTranscriptionFailureCodes ==
    (/\ HandlerReturned
     /\ last.op = "store_transcription"
     /\ last.cause \in RawOutputFailures \cup {"no_transcript_uri"})
        => /\ last.outcome = "raise"
           /\ last.pk \in DOMAIN table
           /\ table[last.pk].status = FAILED
           /\ table[last.pk].error_code =
                 IF last.cause = "no_transcript_uri"
                 THEN Str("TRANSCRIBE_NO_OUTPUT")
                 ELSE Str("TRANSCRIBE_DOWNLOAD_ERROR")

\* C28: in every reachable state, an artifact that is TRANSCRIBED, SUMMARIZING
\* or SUMMARIZED with a transcript key has its transcript object in storage at
\* that key, and an artifact that is SUMMARIZED has its summary object in
\* storage at its summary key.
C28_ObjectsBeforeRecord ==
    \A pk \in DOMAIN table :
        /\ (/\ table[pk].status \in {TRANSCRIBED, SUMMARIZING, SUMMARIZED}
            /\ table[pk].s3_key_transcription # None)
              => table[pk].s3_key_transcription \in objects
        /\ table[pk].status = SUMMARIZED => table[pk].s3_key_summary \in objects

\* an artifact is SUMMARIZED and both its objects are in storage
C28_Witness ==
    \E pk \in DOMAIN table :
        /\ table[pk].status = SUMMARIZED
        /\ table[pk].s3_key_transcription \in objects
        /\ table[pk].s3_key_summary \in objects
        /\ table[pk].s3_key_summary # table[pk].s3_key_transcription

\* the records of a list that carry a key
Keyed(records) == SelectSeq(records, LAMBDA r : r # <<>>)

\* a record with a well-formed key and an allowed extension
Acceptable(key) == key # <<>> /\ ~Parse(key).invalid /\ Parse(key).ext \in ALLOW_EXTS

IdentifierFields == {"user_email", "meeting_name", "meeting_date", "basename"}

\* C21: in every reachable state, each of the four identifier fields of every
\* stored artifact is non-empty and holds no "#".
C21_IdentifierFieldsWellFormed ==
    \A pk \in DOMAIN table :
        \A field \in IdentifierFields :
            /\ table[pk][field] \notin {<<>>, None}
            /\ ~Contains(table[pk][field], {"#"})

\* C26: when ingest has handled the notification for a key that the
\* upload-URL endpoint returned, it has accepted the key and written the
\* artifact the endpoint created, which is no longer UPLOADED.
C26_UploadedArtifactAdvanced ==
    (HandlerReturned /\ last.op = "ingest")
        => \A n \in IntakeNames, b \in IntakeBasenames :
              LET identifier == MeetingIdentifier(Owner, n, MeetingDate, b)
                  pk == compose_pk(identifier)
              IN  (/\ pk \in DOMAIN table
                   /\ recording_key(MeetingS3Paths(identifier, Mp4)) = last.key)
                     => /\ last.cause \notin {"invalid_key", "extension"}
                        /\ last.pk = pk
                        /\ table[pk].status # UPLOADED

StageOps ==
    {"start_transcription", "poll_transcription", "store_transcription", "generate_summary"}

\* C27: in a pipeline execution, every stage that ends has parsed its
\* recording key to the identifier and the primary key that the handler
\* before it, and so ingest, acted on.
C27_StagesActOnIngestedIdentifier ==
    [][(last'.op \in StageOps /\ last' # last)
          => /\ ~Parse(last'.key).invalid
             /\ Parse(last'.key).identifier = Parse(last.key).identifier
             /\ last'.pk = last.pk]_vars

\* the primary keys of the artifacts of the executions
PipelinePks ==
    {compose_pk(Parse(key).identifier) : key \in {k \in PipelineKeys : ~Parse(k).invalid}}

\* C29: under fairness, an artifact that is TRANSCRIBING is SUMMARIZED or
\* FAILED at some later time.
C29_TranscribingLeadsToTerminal ==
    \A pk \in PipelinePks :
        (pk \in DOMAIN table /\ table[pk].status = TRANSCRIBING)
            ~> (pk \in DOMAIN table /\ table[pk].status \in {SUMMARIZED, FAILED})

\* every delivery of the notification has been handled to its end
DeliveriesHandled ==
    \A i \in Deliveries : inv[i] \in {"returned", "raised", "raised_client_error"}

\* one record, that of the notification's identifier, with its extension, its
\* recording key and the time of the first write
OneArtifact(status) ==
    LET paths == Parse(last.key)
        pk == compose_pk(paths.identifier)
    IN  /\ DOMAIN table = {pk}
        /\ table[pk].status \in status
        /\ table[pk].ext = paths.ext
        /\ table[pk].s3_key_recording = recording_key(paths)
        /\ table[pk].created_at = 1

\* C25 as stated: when the ingest invocations for one recording key have
\* ended, under any interleaving of their writes, there is exactly one
\* artifact for the identifier, TRANSCRIBING, with the same ext and recording
\* key and the created_at of the first write.
C25_DuplicateIngestLeavesTranscribing == DeliveriesHandled => OneArtifact({TRANSCRIBING})

\* C25: when the ingest invocations for one recording key have ended, under
\* any interleaving of their writes, there is exactly one artifact for the
\* identifier, with the same ext and recording key and the created_at of the
\* first write.  It is TRANSCRIBING when no start_execution raised
\* ClientError; otherwise it has the status of the last write, FAILED with
\* PIPELINE_START_ERROR after a mark_failed and TRANSCRIBING after an upsert.
C25_DuplicateIngestLeavesOneArtifact ==
    DeliveriesHandled
        => /\ OneArtifact({TRANSCRIBING, FAILED})
           /\ LET artefact == table[compose_pk(Parse(last.key).identifier)]
              IN  /\ artefact.status = FAILED
                        <=> last.op = "mark_failed"
                  /\ artefact.status = FAILED
                        => artefact.error_code = Str("PIPELINE_START_ERROR")
                  /\ (\A i \in Deliveries : inv[i] # "raised_client_error")
                        => artefact.status = TRANSCRIBING

\* both deliveries have been handled, the second upsert came after the first
\* delivery had ended, and the record keeps the time of the first write
C25_Witness ==
    /\ DeliveriesHandled
    /\ \A i \in Deliveries : inv[i] = "returned"
    /\ now >= 2
    /\ OneArtifact({TRANSCRIBING})
    /\ table[compose_pk(Parse(last.key).identifier)].updated_at = now
====
